---- MODULE Spec2Model ----
(***************************************************************************)
(* Model of the model-preparation scripts of ts-vad-android:               *)
(*   export/download_models.py   (export, fetch, verify pipeline)          *)
(*   export/personal_vad_model.py (PersonalVAD definition and ONNX export) *)
(*                                                                         *)
(* Spec        : up to NumProcs operating-system processes, each running   *)
(*               one of the two entry points, sharing one file system.     *)
(* SpecForward : a caller streaming chunks through PersonalVAD.forward,    *)
(*               carrying the recurrent state between calls.               *)
(***************************************************************************)
EXTENDS Integers, Sequences, FiniteSets, TLC

\* ------------------------------------------------------------------ bounds
NumProcs  == 2      \* concurrently started processes
MaxBatch  == 3      \* batch sizes tried by the streaming caller
MaxSeq    == 3      \* chunk lengths tried by the streaming caller
MaxChunks == 3      \* consecutive forward calls in one stream

\* ------------------------------------------------------- program constants
fbank_dim   == 40
embed_dim   == 256
hidden_dim  == 64
num_layers  == 2
num_classes == 3
input_dim   == fbank_dim + embed_dim
export_batch    == 1
export_seq_len  == 25
export_features == 296
verify_seq_len  == 10

VAD_PATH == "models/personal_vad.onnx"
SPK_PATH == "models/speaker_encoder.onnx"
CWD_VAD_PATH == "personal_vad.onnx"
Paths == {VAD_PATH, SPK_PATH, CWD_VAD_PATH}

Procs == 1..NumProcs

VARIABLES
  kind,         \* kind[p]: which entry point process p runs
  argv,         \* argv[p]: the weights argument on the command line, or "none"
  pc,           \* pc[p]: position of process p
  fs,           \* fs[path]: the file at path, or NoFile
  fs0,          \* the file system as it was before any process started
  nwrites,      \* number of file writes so far (gives every write fresh bytes)
  output_path,  \* export_onnx frame: output_path
  weights_path, \* export_onnx frame: weights_path
  params,       \* export_onnx frame: parameters held by `model`
  ret,          \* value returned by the last pipeline step of p
  err,          \* the exception / exit reason that ended p, or "none"
  x_fed,        \* shape of the synthetic input verify_models passed to sess.run
  logits_shape, \* logits shape verify_models printed
  clobbered,    \* clobbered[p]: p wrote onto a path that already held a file
  trace,        \* trace[p]: calls, returns and prints of p, in order
  fx, fh, fc,   \* streaming caller: last input shape, carried h and c shapes
  flogits,      \* streaming caller: logits shape of the last call
  fcalls,       \* streaming caller: number of forward calls made
  fstatus,      \* streaming caller: "ok" or "error"
  first         \* streaming caller: input and output shapes of the first call

pvars == <<kind, argv, pc, fs, fs0, nwrites, output_path, weights_path, params,
           ret, err, x_fed, logits_shape, clobbered, trace>>
fvars == <<fx, fh, fc, flogits, fcalls, fstatus, first>>
vars  == <<kind, argv, pc, fs, fs0, nwrites, output_path, weights_path, params,
           ret, err, x_fed, logits_shape, clobbered, trace,
           fx, fh, fc, flogits, fcalls, fstatus, first>>

\* ------------------------------------------------------------- file system
NoFile == [model |-> "none", params |-> "none", x_shape |-> <<>>,
           writer |-> 0, ver |-> 0]

\* os.path.exists
Exists_never(f, path) == FALSE
Exists_wrong_path(f, path) == f["personal_vad.onnx"] /= NoFile
Exists(f, path) == f[path] /= NoFile

\* what torch.onnx.export leaves at output_path: the traced graph with the
\* example input's shape frozen in, and the parameters the model holds
ExportedFile(prm, x, p, v) ==
  [model |-> "vad", params |-> prm, x_shape |-> x, writer |-> p, ver |-> v]

\* what hf_hub_download leaves in local_dir
DownloadedFile(p, v) ==
  [model |-> "encoder", params |-> "upstream", x_shape |-> <<>>,
   writer |-> p, ver |-> v]

\* files that may be lying around before a run: artifacts of earlier runs
OldVad == {ExportedFile(prm, <<export_batch, export_seq_len, export_features>>, 0, 0) :
             prm \in {"random", "pretrained"}}
OldSpk == {DownloadedFile(0, 0)}

\* ------------------------------------------------------ PersonalVAD.forward
\* nn.Linear(in, out) on a tensor shape: maps the last dimension
Linear(shape, in, out) ==
  IF Len(shape) >= 1 /\ shape[Len(shape)] = in
    THEN [i \in 1..Len(shape) |-> IF i = Len(shape) THEN out ELSE shape[i]]
    ELSE <<>>

\* nn.LSTM(batch_first=True): state size the input demands of h0 and c0
ExpectedHiddenSize(x) == <<num_layers, x[1], hidden_dim>>

\* nn.LSTM(batch_first=True): shape of the returned hn and cn
LstmStateShape_batch_first(x) == <<x[1], num_layers, hidden_dim>>
LstmStateShape(x) == <<num_layers, x[1], hidden_dim>>

\* nn.LSTM(batch_first=True): shape of the output sequence
LstmOutShape(x) == <<x[1], x[2], hidden_dim>>

LstmAccepts(x, h0, c0) ==
  /\ Len(x) = 3
  /\ x[3] = input_dim
  /\ h0 = ExpectedHiddenSize(x)
  /\ c0 = ExpectedHiddenSize(x)

ForwardError == [ok |-> FALSE, logits |-> <<>>, hn |-> <<>>, cn |-> <<>>]

forward(x, h0, c0) ==
  IF LstmAccepts(x, h0, c0)
    THEN [ok     |-> TRUE,
          logits |-> Linear(Linear(LstmOutShape(x), hidden_dim, hidden_dim),
                            hidden_dim, num_classes),
          hn     |-> LstmStateShape(x),
          cn     |-> LstmStateShape(x)]
    ELSE ForwardError

\* onnxruntime InferenceSession.run on a graph traced with fixed shapes:
\* the input must have the declared shape, the graph then computes forward
SessRun(file, x, h0, c0) ==
  IF x = file.x_shape THEN forward(x, h0, c0) ELSE ForwardError

\* ------------------------------------------------------------ entry points
\* download_models.py __main__: the steps, in call order
MainOrder_fetch_first ==
  <<"download_wespeaker_onnx", "export_personal_vad", "verify_models">>
MainOrder == <<"export_personal_vad", "download_wespeaker_onnx", "verify_models">>

IndexOf(step) == CHOOSE i \in 1..Len(MainOrder) : MainOrder[i] = step
After(step) ==
  IF IndexOf(step) < Len(MainOrder) THEN MainOrder[IndexOf(step) + 1] ELSE "done"

\* export_personal_vad's call export_onnx(output_path): the weights argument
PipelineWeightsArg_argv(a) == a
PipelineWeightsArg(a) == "none"

\* download_wespeaker_onnx, except ImportError: sys.exit(1)
OnImportError_continue(next) == next
OnImportError(next) == "exited"

\* export_onnx: torch.load / load_state_dict raised, nothing catches it
OnLoadError_fallback(next) == next
OnLoadError(next) == "raised"

Log(p, events) == trace' = [trace EXCEPT ![p] = @ \o events]

Has(tr, e) == \E i \in 1..Len(tr) : tr[i] = e
Count(tr, e) == Cardinality({i \in 1..Len(tr) : tr[i] = e})

Terminated(p) == pc[p] \in {"done", "exited", "raised"}


\* ------------------------------------------------------------------- Init
Invocations == {"pipeline", "standalone", "idle"}

StartPc(k) ==
  IF k = "pipeline" THEN MainOrder[1] ELSE IF k = "standalone" THEN "main" ELSE "idle"

FwdIdle ==
  /\ fx = <<>> /\ fh = <<>> /\ fc = <<>> /\ flogits = <<>>
  /\ fcalls = 0 /\ fstatus = "ok"
  /\ first = [x |-> <<>>, logits |-> <<>>, hn |-> <<>>, cn |-> <<>>]

Init ==
  /\ kind \in [Procs -> Invocations]
  /\ argv \in [Procs -> {"none", "weights.pt"}]
  /\ \A p \in Procs : kind[p] = "idle" => argv[p] = "none"
  /\ pc = [p \in Procs |-> StartPc(kind[p])]
  /\ fs \in [Paths -> {NoFile} \cup OldVad \cup OldSpk]
  /\ fs[VAD_PATH] \in {NoFile} \cup OldVad
  /\ fs[CWD_VAD_PATH] \in {NoFile} \cup OldVad
  /\ fs[SPK_PATH] \in {NoFile} \cup OldSpk
  /\ fs0 = fs
  /\ nwrites = 0
  /\ output_path = [p \in Procs |-> "none"]
  /\ weights_path = [p \in Procs |-> "none"]
  /\ params = [p \in Procs |-> "none"]
  /\ ret = [p \in Procs |-> "none"]
  /\ err = [p \in Procs |-> "none"]
  /\ x_fed = [p \in Procs |-> <<>>]
  /\ logits_shape = [p \in Procs |-> <<>>]
  /\ clobbered = [p \in Procs |-> FALSE]
  /\ trace = [p \in Procs |-> <<>>]
  /\ FwdIdle

\* ---------------------------------------------------- download_models.py
\* export_personal_vad up to the call of export_onnx
export_personal_vad(p) ==
  /\ pc[p] = "export_personal_vad"
  /\ IF Exists(fs, VAD_PATH)
       THEN /\ Log(p, <<"call:export_personal_vad", "print:vad already exists",
                        "ret:export_personal_vad">>)
            /\ ret' = [ret EXCEPT ![p] = VAD_PATH]
            /\ pc' = [pc EXCEPT ![p] = After("export_personal_vad")]
            /\ UNCHANGED <<output_path, weights_path, err>>
       ELSE \E torch_ok \in BOOLEAN :
              IF torch_ok
                THEN /\ Log(p, <<"call:export_personal_vad", "call:export_onnx">>)
                     /\ output_path' = [output_path EXCEPT ![p] = VAD_PATH]
                     /\ weights_path' =
                          [weights_path EXCEPT ![p] = PipelineWeightsArg(argv[p])]
                     /\ pc' = [pc EXCEPT ![p] = "export_onnx"]
                     /\ UNCHANGED <<ret, err>>
                ELSE /\ Log(p, <<"call:export_personal_vad">>)
                     /\ err' = [err EXCEPT ![p] = "import_error:torch"]
                     /\ pc' = [pc EXCEPT ![p] = "raised"]
                     /\ UNCHANGED <<output_path, weights_path, ret>>
  /\ UNCHANGED <<kind, argv, fs, fs0, nwrites, params, x_fed, logits_shape,
                 clobbered>>
  /\ UNCHANGED fvars

\* download_wespeaker_onnx up to the try block
download_wespeaker_onnx(p) ==
  /\ pc[p] = "download_wespeaker_onnx"
  /\ IF Exists(fs, SPK_PATH)
       THEN /\ Log(p, <<"call:download_wespeaker_onnx",
                        "print:speaker encoder already exists",
                        "ret:download_wespeaker_onnx">>)
            /\ ret' = [ret EXCEPT ![p] = SPK_PATH]
            /\ pc' = [pc EXCEPT ![p] = After("download_wespeaker_onnx")]
       ELSE /\ Log(p, <<"call:download_wespeaker_onnx", "print:downloading">>)
            /\ pc' = [pc EXCEPT ![p] = "hf_hub_download"]
            /\ UNCHANGED ret
  /\ UNCHANGED <<kind, argv, fs, fs0, nwrites, output_path, weights_path,
                 params, err, x_fed, logits_shape, clobbered>>
  /\ UNCHANGED fvars

\* the try block of download_wespeaker_onnx: import, download, or fail
hf_hub_download(p) ==
  /\ pc[p] = "hf_hub_download"
  /\ \E outcome \in {"ok", "import_error", "fetch_error"} :
       CASE outcome = "ok" ->
              /\ fs' = [fs EXCEPT ![SPK_PATH] = DownloadedFile(p, nwrites + 1)]
              /\ nwrites' = nwrites + 1
              /\ clobbered' = [clobbered EXCEPT ![p] = @ \/ fs[SPK_PATH] /= NoFile]
              /\ Log(p, <<"call:hf_hub_download", "print:downloaded",
                          "ret:download_wespeaker_onnx">>)
              /\ ret' = [ret EXCEPT ![p] = SPK_PATH]
              /\ pc' = [pc EXCEPT ![p] = After("download_wespeaker_onnx")]
              /\ UNCHANGED err
         [] outcome = "import_error" ->
              /\ Log(p, <<"print:huggingface_hub not installed">>)
              /\ err' = [err EXCEPT ![p] = "import_error:huggingface_hub"]
              /\ pc' = [pc EXCEPT ![p] =
                          OnImportError(After("download_wespeaker_onnx"))]
              /\ UNCHANGED <<fs, nwrites, clobbered, ret>>
         [] outcome = "fetch_error" ->
              /\ Log(p, <<"call:hf_hub_download">>)
              /\ err' = [err EXCEPT ![p] = "fetch_error"]
              /\ pc' = [pc EXCEPT ![p] = "raised"]
              /\ UNCHANGED <<fs, nwrites, clobbered, ret>>
  /\ UNCHANGED <<kind, argv, fs0, output_path, weights_path, params, x_fed,
                 logits_shape>>
  /\ UNCHANGED fvars

\* the synthetic tensors of verify_models
verify_x  == <<1, verify_seq_len, 296>>
verify_h0 == <<2, 1, 64>>
verify_c0 == <<2, 1, 64>>

\* verify_models, the speaker encoder part
verify_models(p) ==
  /\ pc[p] = "verify_models"
  /\ IF Exists(fs, SPK_PATH)
       THEN Log(p, <<"call:verify_models", "print:speaker encoder info">>)
       ELSE Log(p, <<"call:verify_models">>)
  /\ pc' = [pc EXCEPT ![p] = "verify_vad"]
  /\ UNCHANGED <<kind, argv, fs, fs0, nwrites, output_path, weights_path,
                 params, ret, err, x_fed, logits_shape, clobbered>>
  /\ UNCHANGED fvars

\* verify_models, the personal VAD part with its test inference
verify_vad(p) ==
  /\ pc[p] = "verify_vad"
  /\ IF Exists(fs, VAD_PATH)
       THEN LET r == SessRun(fs[VAD_PATH], verify_x, verify_h0, verify_c0) IN
            /\ x_fed' = [x_fed EXCEPT ![p] = verify_x]
            /\ IF r.ok
                 THEN /\ logits_shape' = [logits_shape EXCEPT ![p] = r.logits]
                      /\ Log(p, <<"print:personal vad info", "call:sess.run",
                                  "print:test passed", "ret:verify_models">>)
                      /\ pc' = [pc EXCEPT ![p] = "done"]
                      /\ UNCHANGED err
                 ELSE /\ Log(p, <<"print:personal vad info", "call:sess.run">>)
                      /\ err' = [err EXCEPT ![p] = "invalid_argument"]
                      /\ pc' = [pc EXCEPT ![p] = "raised"]
                      /\ UNCHANGED logits_shape
       ELSE /\ Log(p, <<"ret:verify_models">>)
            /\ pc' = [pc EXCEPT ![p] = "done"]
            /\ UNCHANGED <<x_fed, logits_shape, err>>
  /\ UNCHANGED <<kind, argv, fs, fs0, nwrites, output_path, weights_path,
                 params, ret, clobbered>>
  /\ UNCHANGED fvars

\* -------------------------------------------------- personal_vad_model.py
\* __main__: weights = argv[1] or None; export_onnx(weights_path=weights)
main_export(p) ==
  /\ pc[p] = "main"
  /\ output_path' = [output_path EXCEPT ![p] = CWD_VAD_PATH]
  /\ weights_path' = [weights_path EXCEPT ![p] = argv[p]]
  /\ Log(p, <<"call:export_onnx">>)
  /\ pc' = [pc EXCEPT ![p] = "export_onnx"]
  /\ UNCHANGED <<kind, argv, fs, fs0, nwrites, params, ret, err, x_fed,
                 logits_shape, clobbered>>
  /\ UNCHANGED fvars

\* export_onnx: build the model and bind the parameter file, if one is given
export_onnx(p) ==
  /\ pc[p] = "export_onnx"
  /\ IF weights_path[p] /= "none"
       THEN \E outcome \in {"ok", "load_error", "mismatch"} :
              CASE outcome = "ok" ->
                     /\ params' = [params EXCEPT ![p] = "pretrained"]
                     /\ Log(p, <<"print:loaded pretrained weights">>)
                     /\ pc' = [pc EXCEPT ![p] = "torch_onnx_export"]
                     /\ UNCHANGED err
                [] outcome = "load_error" ->
                     /\ params' = [params EXCEPT ![p] = "random"]
                     /\ err' = [err EXCEPT ![p] = "load_error"]
                     /\ pc' = [pc EXCEPT ![p] = OnLoadError("torch_onnx_export")]
                     /\ UNCHANGED trace
                [] outcome = "mismatch" ->
                     /\ params' = [params EXCEPT ![p] = "partial"]
                     /\ err' = [err EXCEPT ![p] = "state_dict_mismatch"]
                     /\ pc' = [pc EXCEPT ![p] = OnLoadError("torch_onnx_export")]
                     /\ UNCHANGED trace
       ELSE /\ params' = [params EXCEPT ![p] = "random"]
            /\ pc' = [pc EXCEPT ![p] = "torch_onnx_export"]
            /\ UNCHANGED <<err, trace>>
  /\ UNCHANGED <<kind, argv, fs, fs0, nwrites, output_path, weights_path, ret,
                 x_fed, logits_shape, clobbered>>
  /\ UNCHANGED fvars

\* the example tensors export_onnx traces the model with
export_x  == <<export_batch, export_seq_len, export_features>>
export_h0 == <<num_layers, export_batch, hidden_dim>>
export_c0 == <<num_layers, export_batch, hidden_dim>>

\* export_onnx: torch.onnx.export traces forward and writes output_path
torch_onnx_export(p) ==
  /\ pc[p] = "torch_onnx_export"
  /\ forward(export_x, export_h0, export_c0).ok
  /\ fs' = [fs EXCEPT ![output_path[p]] =
              ExportedFile(params[p], export_x, p, nwrites + 1)]
  /\ nwrites' = nwrites + 1
  /\ clobbered' = [clobbered EXCEPT ![p] = @ \/ fs[output_path[p]] /= NoFile]
  /\ IF kind[p] = "pipeline"
       THEN /\ Log(p, <<"print:exported", "ret:export_onnx",
                        "ret:export_personal_vad">>)
            /\ ret' = [ret EXCEPT ![p] = output_path[p]]
            /\ pc' = [pc EXCEPT ![p] = After("export_personal_vad")]
       ELSE /\ Log(p, <<"print:exported", "ret:export_onnx">>)
            /\ pc' = [pc EXCEPT ![p] = "done"]
            /\ UNCHANGED ret
  /\ UNCHANGED <<kind, argv, fs0, output_path, weights_path, params, err, x_fed,
                 logits_shape>>
  /\ UNCHANGED fvars

Next ==
  \E p \in Procs :
    \/ export_personal_vad(p)
    \/ download_wespeaker_onnx(p)
    \/ hf_hub_download(p)
    \/ verify_models(p)
    \/ verify_vad(p)
    \/ main_export(p)
    \/ export_onnx(p)
    \/ torch_onnx_export(p)

Spec == Init /\ [][Next]_vars

TypeOK == \A p \in Procs : pc[p] \in {"idle", "main", "export_personal_vad",
  "download_wespeaker_onnx", "hf_hub_download", "verify_models", "verify_vad",
  "export_onnx", "torch_onnx_export", "done", "exited", "raised"}


\* ------------------------------------------------- streaming through forward
\* state shapes a caller may start a stream with: np.zeros((layers, batch, 64))
CallerStates == {<<l, b, hidden_dim>> : l \in {1, num_layers}, b \in 1..MaxBatch}

\* chunk shapes a caller may feed
CallerInputs ==
  {<<b, s, d>> : b \in 1..MaxBatch, s \in 1..MaxSeq, d \in {input_dim, fbank_dim}}

PipelineIdle ==
  /\ kind = [p \in Procs |-> "idle"]
  /\ argv = [p \in Procs |-> "none"]
  /\ pc = [p \in Procs |-> "idle"]
  /\ fs = [f \in Paths |-> NoFile]
  /\ fs0 = fs
  /\ nwrites = 0
  /\ output_path = [p \in Procs |-> "none"]
  /\ weights_path = [p \in Procs |-> "none"]
  /\ params = [p \in Procs |-> "none"]
  /\ ret = [p \in Procs |-> "none"]
  /\ err = [p \in Procs |-> "none"]
  /\ x_fed = [p \in Procs |-> <<>>]
  /\ logits_shape = [p \in Procs |-> <<>>]
  /\ clobbered = [p \in Procs |-> FALSE]
  /\ trace = [p \in Procs |-> <<>>]

InitForward ==
  /\ PipelineIdle
  /\ fx = <<>>
  /\ fh \in CallerStates
  /\ fc \in CallerStates
  /\ flogits = <<>>
  /\ fcalls = 0
  /\ fstatus = "ok"
  /\ first = [x |-> <<>>, logits |-> <<>>, hn |-> <<>>, cn |-> <<>>]

\* one call logits, hn, cn = model(x, h, c); the caller keeps hn, cn for the next
forward_call ==
  /\ fstatus = "ok"
  /\ fcalls < MaxChunks
  /\ \E x \in CallerInputs :
       LET r == forward(x, fh, fc) IN
       /\ fx' = x
       /\ fcalls' = fcalls + 1
       /\ IF r.ok
            THEN /\ fh' = r.hn
                 /\ fc' = r.cn
                 /\ flogits' = r.logits
                 /\ fstatus' = "ok"
                 /\ first' = IF fcalls = 0
                               THEN [x |-> x, logits |-> r.logits,
                                     hn |-> r.hn, cn |-> r.cn]
                               ELSE first
            ELSE /\ fstatus' = "error"
                 /\ UNCHANGED <<fh, fc, flogits, first>>
  /\ UNCHANGED pvars

NextForward == forward_call

SpecForward == InitForward /\ [][NextForward]_vars


\* =================================================================== claims
Active == {p \in Procs : kind[p] /= "idle"}
Pipelines == {p \in Procs : kind[p] = "pipeline"}

\* C1: whenever verify_models has run its test inference, the input it fed
\* has the shape the exported artifact declares, [1,25,296], and the logits
\* it got back are shaped (1,25,3).
C1_VerifierFeedsDeclaredShape ==
  \A p \in Procs :
    Has(trace[p], "call:sess.run") =>
      /\ x_fed[p] = <<1, 25, 296>>
      /\ x_fed[p] = fs[VAD_PATH].x_shape
      /\ logits_shape[p] = <<1, 25, 3>>

\* C2: a step of export_personal_vad (download_wespeaker_onnx) that finds its
\* target file present prints "already exists", returns the target path,
\* leaves every file as it was and goes on to the next step; a run that
\* printed "already exists" for a target never calls export_onnx
\* (hf_hub_download); and a run started with both files present calls neither.
C2_SkipStep(p, step, path, msg) ==
  (pc[p] = step /\ pc'[p] /= step /\ fs[path] /= NoFile) =>
    /\ fs' = fs
    /\ nwrites' = nwrites
    /\ ret'[p] = path
    /\ trace'[p] = trace[p] \o <<"call:" \o step, msg, "ret:" \o step>>
    /\ pc'[p] \notin {"export_onnx", "torch_onnx_export", "hf_hub_download"}

C2_NoWorkAfterSkip(p) ==
  /\ Has(trace[p], "print:vad already exists") => ~Has(trace[p], "call:export_onnx")
  /\ Has(trace[p], "print:speaker encoder already exists") =>
       ~Has(trace[p], "call:hf_hub_download")
  /\ (fs0[VAD_PATH] /= NoFile /\ fs0[SPK_PATH] /= NoFile) =>
       /\ ~Has(trace[p], "call:export_onnx")
       /\ ~Has(trace[p], "call:hf_hub_download")
       /\ fs[VAD_PATH] = fs0[VAD_PATH]
       /\ fs[SPK_PATH] = fs0[SPK_PATH]

C2_IdempotentSkip ==
  [][\A p \in Pipelines :
       /\ C2_SkipStep(p, "export_personal_vad", VAD_PATH, "print:vad already exists")
       /\ C2_SkipStep(p, "download_wespeaker_onnx", SPK_PATH,
                      "print:speaker encoder already exists")
       /\ C2_NoWorkAfterSkip(p)']_vars

C2_Witness ==
  \E p \in Pipelines :
    /\ fs0[VAD_PATH] /= NoFile /\ fs0[SPK_PATH] /= NoFile
    /\ Has(trace[p], "print:vad already exists")
    /\ Has(trace[p], "print:speaker encoder already exists")
    /\ ret[p] = SPK_PATH
    /\ fs = fs0

\* C3: a call of export_onnx whose output_path already holds a file writes
\* nothing: the file system is the same after the export step as before it.
C3_ExportOnnxNeverOverwrites ==
  [][\A p \in Procs :
       (pc[p] = "torch_onnx_export" /\ pc'[p] /= pc[p]
          /\ fs[output_path[p]] /= NoFile) => fs' = fs]_vars

\* C4: a pipeline run whose fetch failed (hub client not importable, or the
\* download raised) has terminated with a failure outcome (exit status 1 after
\* printing guidance, resp. an uncaught exception) and has not called
\* verify_models; and no run calls verify_models while speaker_encoder.onnx
\* is missing.
FetchFailures == {"import_error:huggingface_hub", "fetch_error"}

C4_FetchFailureStops ==
  \A p \in Pipelines :
    /\ err[p] \in FetchFailures =>
         /\ pc[p] \in {"exited", "raised"}
         /\ ~Has(trace[p], "call:verify_models")
         /\ ~Has(trace[p], "ret:download_wespeaker_onnx")
    /\ err[p] = "import_error:huggingface_hub" =>
         /\ pc[p] = "exited"
         /\ Has(trace[p], "print:huggingface_hub not installed")
    /\ err[p] = "fetch_error" => pc[p] = "raised"
    /\ Has(trace[p], "call:verify_models") => fs[SPK_PATH] /= NoFile

C4_Witness ==
  \E p \in Pipelines :
    /\ err[p] \in FetchFailures
    /\ fs[SPK_PATH] = NoFile
    /\ Terminated(p)

\* C5: when export_onnx is given a parameter file, the graph export step is
\* reached only with the parameters loaded and bound; a failed or mismatching
\* load ends the process with the error, the export step is never reached and
\* no file is written by that call, so no artifact holds random or partially
\* loaded weights in place of the supplied ones.
LoadFailures == {"load_error", "state_dict_mismatch"}

C5_LoadBeforeExportOrFail ==
  \A p \in Procs :
    /\ (pc[p] = "torch_onnx_export" /\ weights_path[p] /= "none") =>
         /\ params[p] = "pretrained"
         /\ Has(trace[p], "print:loaded pretrained weights")
    /\ err[p] \in LoadFailures =>
         /\ pc[p] = "raised"
         /\ ~Has(trace[p], "print:exported")
         /\ \A f \in Paths : fs[f].writer /= p
    /\ \A f \in Paths :
         (fs[f].writer = p /\ weights_path[p] /= "none") =>
            fs[f].params = "pretrained"

C5_Witness ==
  \E p \in Procs :
    /\ err[p] = "state_dict_mismatch"
    /\ params[p] = "partial"
    /\ pc[p] = "raised"
    /\ fs[output_path[p]] = fs0[output_path[p]]

\* C6: a single pipeline run started on an empty output directory, in which
\* neither the export nor the download dependency failed, ends without an
\* error, with both personal_vad.onnx and speaker_encoder.onnx present and
\* with a reported logits shape of (1,25,3).
DependencyFailures == {"import_error:torch"} \cup FetchFailures

C6_EndToEnd ==
  \A p \in Pipelines :
    (/\ Active = {p}
     /\ fs0[VAD_PATH] = NoFile /\ fs0[SPK_PATH] = NoFile
     /\ Terminated(p)
     /\ err[p] \notin DependencyFailures) =>
       /\ pc[p] = "done"
       /\ err[p] = "none"
       /\ fs[VAD_PATH] /= NoFile /\ fs[SPK_PATH] /= NoFile
       /\ logits_shape[p] = <<1, 25, 3>>

\* C7: the step calls and returns of a pipeline run, in the order they
\* happen, are an initial part of: export called, export returned, fetch
\* called, fetch returned, verify called, verify returned.
StepOrder ==
  <<"call:export_personal_vad", "ret:export_personal_vad",
    "call:download_wespeaker_onnx", "ret:download_wespeaker_onnx",
    "call:verify_models", "ret:verify_models">>

IsStepEvent(e) == \E i \in 1..Len(StepOrder) : StepOrder[i] = e

IsPrefix(s, t) == Len(s) <= Len(t) /\ \A i \in 1..Len(s) : s[i] = t[i]

C7_SequentialOrder ==
  \A p \in Pipelines : IsPrefix(SelectSeq(trace[p], IsStepEvent), StepOrder)

C7_Witness ==
  \E p \in Pipelines :
    /\ Has(trace[p], "call:export_onnx")
    /\ Has(trace[p], "call:hf_hub_download")
    /\ Has(trace[p], "call:verify_models")

\* C8: with a single process running, no pipeline step ever writes onto a
\* path that already holds a file and no export or download is done twice;
\* the state in which two pipeline processes both found personal_vad.onnx
\* absent, both exported it and one overwrote the other's file is reachable
\* (C8_Witness).
C8_SingleProcessNoRace ==
  Cardinality(Active) = 1 =>
    \A p \in Pipelines :
      /\ ~clobbered[p]
      /\ Count(trace[p], "call:export_onnx") <= 1
      /\ Count(trace[p], "call:hf_hub_download") <= 1
      /\ \A f \in {VAD_PATH, SPK_PATH} : fs[f] /= fs0[f] => fs0[f] = NoFile

C8_Witness ==
  \E p \in Pipelines : \E q \in Pipelines \ {p} :
    /\ fs0[VAD_PATH] = NoFile
    /\ Has(trace[p], "print:exported")
    /\ Has(trace[q], "print:exported")
    /\ clobbered[q]
    /\ fs[VAD_PATH].writer = q

\* C9: a forward call on an input shaped (batch, seq_len, 296), made either
\* first with state shaped (2, batch, 64) or later with the state the
\* previous call returned, succeeds, returns logits shaped (batch, seq_len, 3)
\* and state shaped (2, batch, 64); from the second call on the returned
\* state shapes equal those fed and those of the first call, and the logits
\* shape equals the first call's when the input shape does.
C9_Pre ==
  /\ fcalls' = fcalls + 1
  /\ Len(fx') = 3
  /\ fx'[3] = 296
  /\ IF fcalls = 0
       THEN fh = <<2, fx'[1], 64>> /\ fc = <<2, fx'[1], 64>>
       ELSE fx'[1] = first.x[1]

C9_Post ==
  /\ fstatus' = "ok"
  /\ flogits' = <<fx'[1], fx'[2], 3>>
  /\ fh' = <<2, fx'[1], 64>>
  /\ fc' = <<2, fx'[1], 64>>
  /\ fcalls >= 1 =>
       /\ fh' = fh /\ fc' = fc
       /\ fh' = first.hn /\ fc' = first.cn
       /\ fx' = first.x => flogits' = first.logits

C9_StateShapeInvariance == [][C9_Pre => C9_Post]_vars

C9_Witness ==
  /\ fcalls >= 3
  /\ fstatus = "ok"
  /\ fh = <<2, 2, 64>>
  /\ fx /= first.x

\* C10: a pipeline process never passes a parameter file to export_onnx and
\* never holds loaded parameters, so every file a pipeline process wrote with
\* export_onnx holds random parameters; a written artifact with pretrained
\* parameters comes from the personal_vad_model.py entry point started with
\* a weights argument.
C10_PipelineExportsRandom ==
  /\ \A p \in Pipelines :
       /\ weights_path[p] = "none"
       /\ params[p] \in {"none", "random"}
       /\ ~Has(trace[p], "print:loaded pretrained weights")
  /\ \A f \in Paths :
       /\ (fs[f].writer \in Pipelines /\ fs[f].model = "vad") =>
            fs[f].params = "random"
       /\ (fs[f].writer \in Procs /\ fs[f].params = "pretrained") =>
            /\ kind[fs[f].writer] = "standalone"
            /\ argv[fs[f].writer] /= "none"

C10_Witness ==
  \E p \in Pipelines :
    /\ argv[p] /= "none"
    /\ fs[VAD_PATH].writer = p
    /\ fs[VAD_PATH].params = "random"

====
